---- MODULE Spec2Model ----
(***************************************************************************)
(* Model of icho's AudioPlayer (src/icho/player.py): the playlist, the     *)
(* cursor, the shuffle history, the upcoming list, the manual play-next    *)
(* queue and the playback handle, with one action per public method and    *)
(* one for the tick of the progress timer.                                 *)
(* Indices are 0-based as in the source; At(pl, i) reads pl[i].            *)
(***************************************************************************)
EXTENDS Integers, Sequences, FiniteSets, TLC

\* ---------------------------------------------------------------- bounds
NumTracks == 3      \* distinct track paths
MaxLen == 3         \* longest playlist
MaxCalls == 4       \* longest sequence of calls explored
MaxBatch == 2       \* longest paths argument of add_to_upcoming / add_play_next

Tracks == 1..NumTracks
NoTrack == 0        \* Python None where a path is expected
Raised == -1        \* the call ended in an IndexError

VARIABLES
    playlist,       \* self._playlist
    index,          \* self._index
    history,        \* self._history
    upcoming,       \* self._upcoming_indices
    last_shuffle,   \* self._last_shuffle
    manual_next,    \* self._manual_next
    player,         \* self._player: NoTrack (None) or the path the handle was built for
    pstate,         \* state of the backend handle
    poll_timer,     \* self._poll_timer is not None
    timers,         \* number of QTimer objects that are running
    at_end,         \* the handle reports position >= duration > 0
    fault,          \* how the backend treats a track it is asked to load
    events,         \* signals emitted by the most recent call, in order
    last,           \* the most recent call: name, arguments, result, and for next and
                    \* previous the call before it and the queue state it started from
    expect,         \* tracks a just-issued add_play_next batch promised to play next
    calls           \* number of calls made so far

vars == <<playlist, index, history, upcoming, last_shuffle, manual_next,
          player, pstate, poll_timer, timers, at_end, fault, events, last, expect, calls>>

\* ------------------------------------------------------------ sequences
At(pl, i) == pl[i + 1]

Valid(pl, i) == 0 <= i /\ i < Len(pl)

Contains(seq, x) == \E k \in 1..Len(seq) : seq[k] = x

NoDup(seq) == \A j, k \in 1..Len(seq) : j # k => seq[j] # seq[k]

Max(a, b) == IF a >= b THEN a ELSE b

Min(a, b) == IF a <= b THEN a ELSE b

\* list.index(p): the first position holding p
IndexOf(pl, p) == CHOOSE i \in 0..(Len(pl) - 1) :
                      At(pl, i) = p /\ \A j \in 0..(i - 1) : At(pl, j) # p

\* list.pop(k), the remaining list
RemoveAt(seq, k) == SubSeq(seq, 1, k) \o SubSeq(seq, k + 2, Len(seq))

\* range(lo, hi) as a list
RECURSIVE Range(_, _)
Range(lo, hi) == IF lo >= hi THEN <<>> ELSE <<lo>> \o Range(lo + 1, hi)

\* all orderings of 0..MaxLen-1: the outcomes random.shuffle can produce
Orders == {f \in [1..MaxLen -> 0..(MaxLen - 1)] :
              \A j, k \in 1..MaxLen : j # k => f[j] # f[k]}

PathLists(n) == UNION {[1..k -> Tracks] : k \in 0..n}

\* Paths are opaque and only compared for equality, so playlists are taken up to
\* renaming of the paths: a path new to the list is the least unused one.
\* Repeated paths are kept.
Canonical(paths) ==
    \A k \in 1..Len(paths) : \A t \in 1..(paths[k] - 1) : \E j \in 1..(k - 1) : paths[j] = t

NewLists == {paths \in PathLists(MaxLen) : Canonical(paths)}

\* The orders one random.shuffle call can draw when the list has n entries and
\* index c is left out: the indices that are not shuffled come first, in
\* ascending order, so that every outcome of the shuffle is drawn exactly once.
Identity == [k \in 1..MaxLen |-> k - 1]

Shuffles(n, c) == {i \in 0..(MaxLen - 1) : i < n /\ i # c}

Normal(r, n, c) ==
    \A j, k \in 1..MaxLen :
        (j < k /\ r[k] \notin Shuffles(n, c)) => (r[j] \notin Shuffles(n, c) /\ r[j] < r[k])

NormalOrders == [n \in 0..MaxLen, c \in -1..MaxLen |-> {r \in Orders : Normal(r, n, c)}]

Draws(shuffles, n, c) == IF shuffles THEN NormalOrders[n, c] ELSE {Identity}

\* ------------------------------------------------------------ the object
Cur == [playlist |-> playlist, index |-> index, history |-> history,
        upcoming |-> upcoming, last_shuffle |-> last_shuffle,
        manual_next |-> manual_next, player |-> player, pstate |-> pstate,
        poll_timer |-> poll_timer, timers |-> timers, at_end |-> at_end,
        fault |-> fault, events |-> <<>>]

\* The backend either loads and plays every track ("none"), or there is one
\* track it cannot load: for it the backend builds a handle that never starts
\* playing ("silent"), or vlc.MediaPlayer(path) raises ("raise").  The code
\* catches nothing, so an exception ends the call where it is raised: Escaped
\* marks it and every later step of the call is skipped.
BadTrack == 1

Unreadable(s, p) == s.fault # "none" /\ p = BadTrack

Escaped == <<"exception", NoTrack>>

Failed(s) == Contains(s.events, Escaped)

Emit(s, e) == IF Failed(s) THEN s ELSE [s EXCEPT !.events = Append(@, e)]

TrackChanged(p) == <<"trackChanged", p>>
UpcomingChanged == <<"upcomingChanged", NoTrack>>
\* the values carried by the progress signals are not modelled
PositionChanged == <<"positionChanged", NoTrack>>
DurationChanged == <<"durationChanged", NoTrack>>
PlaybackEnded == <<"playbackEnded", NoTrack>>

current_track(s) == IF Valid(s.playlist, s.index) THEN At(s.playlist, s.index) ELSE NoTrack

_stop_polling(s) ==
    IF s.poll_timer THEN [s EXCEPT !.poll_timer = FALSE, !.timers = @ - 1] ELSE s

_start_polling(s) ==
    IF s.poll_timer THEN s ELSE [s EXCEPT !.poll_timer = TRUE, !.timers = @ + 1]

\* mutant: the current index is shuffled with the others
ShuffledKeepsCurrent(s, r) == SelectSeq(r, LAMBDA i : i < Len(s.playlist))

\* random.shuffle(remaining) under the order r
Shuffled(s, r) == SelectSeq(r, LAMBDA i : i < Len(s.playlist) /\ i # s.index)

rebuild_upcoming(s, shuffle, r) ==
    LET s1 == [s EXCEPT !.last_shuffle = shuffle] IN
    IF Failed(s) THEN s
    ELSE IF Len(s1.playlist) = 0 \/ ~Valid(s1.playlist, s1.index)
    THEN Emit([s1 EXCEPT !.upcoming = <<>>], UpcomingChanged)
    ELSE Emit([s1 EXCEPT !.upcoming = IF shuffle THEN Shuffled(s1, r)
                                      ELSE Range(s1.index + 1, Len(s1.playlist))],
              UpcomingChanged)

\* mutant: a track that is already loaded is not loaded again
_load_current_skip_same(s) ==
    IF Valid(s.playlist, s.index) /\ At(s.playlist, s.index) # s.player
    THEN IF s.fault = "raise" /\ Unreadable(s, At(s.playlist, s.index)) THEN Emit(s, Escaped)
         ELSE Emit([s EXCEPT !.player = At(s.playlist, s.index), !.pstate = "Stopped",
                             !.at_end = FALSE],
                   TrackChanged(At(s.playlist, s.index)))
    ELSE s

\* a new handle is stopped and at position 0
_load_current(s) ==
    IF Valid(s.playlist, s.index)
    THEN IF s.fault = "raise" /\ Unreadable(s, At(s.playlist, s.index)) THEN Emit(s, Escaped)
         ELSE Emit([s EXCEPT !.player = At(s.playlist, s.index), !.pstate = "Stopped",
                             !.at_end = FALSE],
                   TrackChanged(At(s.playlist, s.index)))
    ELSE s

play(s) ==
    LET s1 == IF s.player = NoTrack /\ Len(s.playlist) > 0 /\ Valid(s.playlist, s.index)
              THEN _load_current(s) ELSE s IN
    IF Failed(s) \/ Failed(s1) THEN s1
    ELSE IF s1.player # NoTrack
    THEN _start_polling([s1 EXCEPT !.pstate = IF Unreadable(s1, s1.player) THEN @
                                              ELSE "Playing"])
    ELSE s1

pause(s) ==
    IF s.player # NoTrack
    THEN _stop_polling([s EXCEPT !.pstate = IF @ = "Playing" THEN "Paused" ELSE @])
    ELSE s

toggle_play(s) ==
    IF s.player # NoTrack /\ s.pstate = "Playing" THEN pause(s) ELSE play(s)

\* the backend resets the position when it stops
stop(s) ==
    IF s.player # NoTrack
    THEN _stop_polling([s EXCEPT !.pstate = "Stopped", !.at_end = FALSE])
    ELSE s

\* position() >= duration() > 0; both read 0 without a handle
Finished(s) == s.player # NoTrack /\ s.at_end

_poll_vlc(s) ==
    LET s1 == Emit(Emit(s, PositionChanged), DurationChanged) IN
    IF Finished(s1) THEN Emit(s1, PlaybackEnded) ELSE s1

\* ------------------------------------------------- upcoming management
\* mutant: the upper bound is inclusive
remove_upcoming_inclusive(s, position) ==
    IF 0 <= position /\ position <= Len(s.upcoming)
    THEN Emit([s EXCEPT !.upcoming = RemoveAt(@, position)], UpcomingChanged)
    ELSE s

remove_upcoming(s, position) ==
    IF 0 <= position /\ position < Len(s.upcoming)
    THEN Emit([s EXCEPT !.upcoming = RemoveAt(@, position)], UpcomingChanged)
    ELSE s

clear_upcoming(s) == Emit([s EXCEPT !.upcoming = <<>>], UpcomingChanged)

\* mutant: the index is appended whether or not upcoming holds it already
AddToUpcomingStepNoCheck(a, p) ==
    IF p = current_track(a.s) THEN a
    ELSE LET known == Contains(a.s.playlist, p)
             pl == IF known THEN a.s.playlist ELSE Append(a.s.playlist, p)
             idx == IF known THEN IndexOf(pl, p) ELSE Len(pl) - 1
             a1 == [s |-> [a.s EXCEPT !.playlist = pl], changed |-> a.changed \/ ~known]
         IN IF idx = a1.s.index THEN a1
            ELSE [s |-> [a1.s EXCEPT !.upcoming = Append(@, idx)], changed |-> TRUE]

\* one iteration of the loop of add_to_upcoming; a.changed is the local flag
AddToUpcomingStep(a, p) ==
    IF p = current_track(a.s) THEN a
    ELSE LET known == Contains(a.s.playlist, p)
             pl == IF known THEN a.s.playlist ELSE Append(a.s.playlist, p)
             idx == IF known THEN IndexOf(pl, p) ELSE Len(pl) - 1
             a1 == [s |-> [a.s EXCEPT !.playlist = pl], changed |-> a.changed \/ ~known]
         IN IF idx = a1.s.index THEN a1
            ELSE IF ~Contains(a1.s.upcoming, idx)
                 THEN [s |-> [a1.s EXCEPT !.upcoming = Append(@, idx)], changed |-> TRUE]
                 ELSE a1

RECURSIVE AddToUpcomingLoop(_, _)
AddToUpcomingLoop(a, paths) ==
    IF paths = <<>> THEN a
    ELSE AddToUpcomingLoop(AddToUpcomingStep(a, Head(paths)), Tail(paths))

add_to_upcoming(s, paths) ==
    LET a == AddToUpcomingLoop([s |-> s, changed |-> FALSE], paths) IN
    IF a.changed THEN Emit(a.s, UpcomingChanged) ELSE a.s

\* mutant: the manual queue is not consulted
PeekResultNoManual(s, shuffle) ==
    IF Len(s.playlist) = 0 THEN NoTrack
    ELSE IF shuffle
    THEN IF s.upcoming # <<>>
         THEN IF Head(s.upcoming) < Len(s.playlist)
              THEN At(s.playlist, Head(s.upcoming)) ELSE Raised
         ELSE NoTrack
    ELSE IF Len(s.playlist) <= 1 THEN NoTrack
    ELSE At(s.playlist, IF s.index + 1 < Len(s.playlist) THEN s.index + 1 ELSE 0)

\* the value peek_next returns: a path, NoTrack (None) or Raised (IndexError)
PeekResult(s, shuffle) ==
    IF Len(s.playlist) = 0 THEN NoTrack
    ELSE IF s.manual_next # <<>> /\ Valid(s.playlist, Head(s.manual_next))
    THEN At(s.playlist, Head(s.manual_next))
    ELSE IF shuffle
    THEN IF s.upcoming # <<>>
         THEN IF Head(s.upcoming) < Len(s.playlist)
              THEN At(s.playlist, Head(s.upcoming)) ELSE Raised
         ELSE NoTrack
    ELSE IF Len(s.playlist) <= 1 THEN NoTrack
    ELSE At(s.playlist, IF s.index + 1 < Len(s.playlist) THEN s.index + 1 ELSE 0)

\* mutant: in shuffle mode the list is rebuilt even when it is not empty
peek_next_reshuffles(s, shuffle, r) ==
    IF Len(s.playlist) = 0 THEN s
    ELSE IF s.manual_next # <<>> /\ Valid(s.playlist, Head(s.manual_next)) THEN s
    ELSE IF shuffle THEN rebuild_upcoming(s, TRUE, r)
    ELSE s

\* the object after peek_next: the read-through rebuild of an empty upcoming list
peek_next(s, shuffle, r) ==
    IF Len(s.playlist) = 0 THEN s
    ELSE IF s.manual_next # <<>> /\ Valid(s.playlist, Head(s.manual_next)) THEN s
    ELSE IF shuffle /\ s.upcoming = <<>> THEN rebuild_upcoming(s, TRUE, r)
    ELSE s

\* ------------------------------------------------------------ navigation
\* mutant: the wrap test is off by one
NextLinearIndexNoWrap(s) == IF s.index < Len(s.playlist) THEN s.index + 1 ELSE 0

NextLinearIndex(s) == IF s.index < Len(s.playlist) - 1 THEN s.index + 1 ELSE 0

\* mutant: the index being left is not pushed on history
NextShuffleStepNoPush(s, r) ==
    LET a == IF s.upcoming = <<>> THEN rebuild_upcoming(s, TRUE, r) ELSE s IN
    IF a.upcoming # <<>>
    THEN [a EXCEPT !.index = Head(a.upcoming), !.upcoming = Tail(a.upcoming)]
    ELSE a

\* mutant: the index being left is pushed on history whether or not it is valid
NextShuffleStepPushAlways(s, r) ==
    LET a == IF s.upcoming = <<>> THEN rebuild_upcoming(s, TRUE, r) ELSE s IN
    IF a.upcoming # <<>>
    THEN [a EXCEPT !.history = Append(@, a.index),
                   !.index = Head(a.upcoming),
                   !.upcoming = Tail(a.upcoming)]
    ELSE a

NextShuffleStep(s, r) ==
    LET a == IF s.upcoming = <<>> THEN rebuild_upcoming(s, TRUE, r) ELSE s IN
    IF a.upcoming # <<>>
    THEN [a EXCEPT !.history = IF Valid(a.playlist, a.index) THEN Append(@, a.index) ELSE @,
                   !.index = Head(a.upcoming),
                   !.upcoming = Tail(a.upcoming)]
    ELSE a

\* mutant: the queued track becomes current without being loaded
NextManualNoLoad(s, shuffle, r) ==
    LET s1 == [s EXCEPT !.index = Head(s.manual_next), !.manual_next = Tail(s.manual_next)]
        s2 == IF shuffle /\ s1.manual_next = <<>> /\ s1.upcoming = <<>>
              THEN rebuild_upcoming(s1, TRUE, r) ELSE s1
    IN Emit(play(s2), UpcomingChanged)

NextManual(s, shuffle, r) ==
    LET s1 == _load_current([s EXCEPT !.index = Head(s.manual_next),
                                      !.manual_next = Tail(s.manual_next)])
        s2 == IF shuffle /\ s1.manual_next = <<>> /\ s1.upcoming = <<>>
              THEN rebuild_upcoming(s1, TRUE, r) ELSE s1
    IN Emit(play(s2), UpcomingChanged)

\* mutant: the empty playlist is not tested for
next_no_guard(s, shuffle, r1, r2) ==
    LET s1 == stop(s) IN
    IF s1.manual_next # <<>> /\ Valid(s1.playlist, Head(s1.manual_next))
    THEN NextManual(s1, shuffle, r2)
    ELSE LET s2 == IF s1.manual_next # <<>>
                   THEN [s1 EXCEPT !.manual_next = Tail(@)] ELSE s1
             s3 == IF shuffle THEN NextShuffleStep(s2, r1)
                   ELSE [s2 EXCEPT !.index = NextLinearIndex(s2)]
         IN play(rebuild_upcoming(_load_current(s3), shuffle, r2))

\* mutant: a queued index that is out of range stays in the queue
next_keeps_stale(s, shuffle, r1, r2) ==
    IF Len(s.playlist) = 0 THEN s
    ELSE LET s1 == stop(s) IN
         IF s1.manual_next # <<>> /\ Valid(s1.playlist, Head(s1.manual_next))
         THEN NextManual(s1, shuffle, r2)
         ELSE LET s3 == IF shuffle THEN NextShuffleStep(s1, r1)
                        ELSE [s1 EXCEPT !.index = NextLinearIndex(s1)]
              IN play(rebuild_upcoming(_load_current(s3), shuffle, r2))

\* r1 orders the rebuild of an exhausted upcoming list before the step, r2 the
\* rebuild for the new current index
next(s, shuffle, r1, r2) ==
    IF Len(s.playlist) = 0 THEN s
    ELSE LET s1 == stop(s) IN
         IF s1.manual_next # <<>> /\ Valid(s1.playlist, Head(s1.manual_next))
         THEN NextManual(s1, shuffle, r2)
         ELSE LET s2 == IF s1.manual_next # <<>>
                        THEN [s1 EXCEPT !.manual_next = Tail(@)] ELSE s1
                  s3 == IF shuffle THEN NextShuffleStep(s2, r1)
                        ELSE [s2 EXCEPT !.index = NextLinearIndex(s2)]
              IN play(rebuild_upcoming(_load_current(s3), shuffle, r2))

\* mutant: the index being left replaces the popped one on history
previous_pushes(s, shuffle, r) ==
    IF Len(s.playlist) = 0 THEN s
    ELSE LET s1 == stop(s)
             s2 == IF shuffle /\ s1.history # <<>>
                   THEN [s1 EXCEPT !.index = s1.history[Len(s1.history)],
                                   !.history = Append(SubSeq(@, 1, Len(@) - 1), s1.index)]
                   ELSE [s1 EXCEPT !.index = (s1.index - 1) % Len(s1.playlist)]
         IN play(rebuild_upcoming(_load_current(s2), shuffle, r))

previous(s, shuffle, r) ==
    IF Len(s.playlist) = 0 THEN s
    ELSE LET s1 == stop(s)
             s2 == IF shuffle /\ s1.history # <<>>
                   THEN [s1 EXCEPT !.index = s1.history[Len(s1.history)],
                                   !.history = SubSeq(@, 1, Len(@) - 1)]
                   ELSE [s1 EXCEPT !.index = (s1.index - 1) % Len(s1.playlist)]
         IN play(rebuild_upcoming(_load_current(s2), shuffle, r))

\* ------------------------------------------------------ playlist changes
\* mutant: the manual queue survives
clear_keeps_manual(s) ==
    Emit([stop(s) EXCEPT !.playlist = <<>>, !.index = -1, !.history = <<>>,
                         !.upcoming = <<>>], UpcomingChanged)

clear(s) ==
    Emit([stop(s) EXCEPT !.playlist = <<>>, !.index = -1, !.history = <<>>,
                         !.upcoming = <<>>, !.manual_next = <<>>], UpcomingChanged)

\* mutant: the new tracks go in front of the playlist
add_files_prepends(s, paths) ==
    LET s1 == [s EXCEPT !.playlist = paths \o @] IN
    IF s1.index = -1 /\ Len(s1.playlist) > 0
    THEN _load_current([s1 EXCEPT !.index = 0])
    ELSE s1

\* mutant: the track selected by the first add starts playing
add_files_autoplay(s, paths) ==
    LET s1 == [s EXCEPT !.playlist = @ \o paths] IN
    IF s1.index = -1 /\ Len(s1.playlist) > 0
    THEN play(_load_current([s1 EXCEPT !.index = 0]))
    ELSE s1

add_files(s, paths) ==
    LET s1 == [s EXCEPT !.playlist = @ \o paths] IN
    IF s1.index = -1 /\ Len(s1.playlist) > 0
    THEN _load_current([s1 EXCEPT !.index = 0])
    ELSE s1

\* mutant: start_index is taken as given
set_playlist_no_clamp(s, paths, start_index, r) ==
    LET s1 == [stop(s) EXCEPT !.playlist = paths] IN
    IF Len(paths) = 0 THEN [s1 EXCEPT !.index = -1]
    ELSE LET s2 == [s1 EXCEPT !.index = start_index]
         IN rebuild_upcoming(_load_current(s2), s2.last_shuffle, r)

set_playlist(s, paths, start_index, r) ==
    LET s1 == [stop(s) EXCEPT !.playlist = paths] IN
    IF Len(paths) = 0 THEN [s1 EXCEPT !.index = -1]
    ELSE LET s2 == [s1 EXCEPT !.index = Max(0, Min(start_index, Len(paths) - 1))]
         IN rebuild_upcoming(_load_current(s2), s2.last_shuffle, r)

\* mutant: an index met earlier in the batch is taken again
AddPlayNextStepNoDedup(a, p) ==
    IF p = current_track(a.s) THEN a
    ELSE LET known == Contains(a.s.playlist, p)
             pl == IF known THEN a.s.playlist ELSE Append(a.s.playlist, p)
             idx == IF known THEN IndexOf(pl, p) ELSE Len(pl) - 1
             a1 == [s |-> [a.s EXCEPT !.playlist = pl], new |-> a.new]
         IN IF idx = a1.s.index THEN a1
            ELSE IF ~Contains(a1.s.manual_next, idx)
                 THEN [a1 EXCEPT !.new = Append(@, idx)]
                 ELSE a1

\* one iteration of the loop of add_play_next; a.new is new_indices
AddPlayNextStep(a, p) ==
    IF p = current_track(a.s) THEN a
    ELSE LET known == Contains(a.s.playlist, p)
             pl == IF known THEN a.s.playlist ELSE Append(a.s.playlist, p)
             idx == IF known THEN IndexOf(pl, p) ELSE Len(pl) - 1
             a1 == [s |-> [a.s EXCEPT !.playlist = pl], new |-> a.new]
         IN IF idx = a1.s.index THEN a1
            ELSE IF ~Contains(a1.new, idx) /\ ~Contains(a1.s.manual_next, idx)
                 THEN [a1 EXCEPT !.new = Append(@, idx)]
                 ELSE a1

RECURSIVE AddPlayNextLoop(_, _)
AddPlayNextLoop(a, paths) ==
    IF paths = <<>> THEN a
    ELSE AddPlayNextLoop(AddPlayNextStep(a, Head(paths)), Tail(paths))

\* mutant: the notification does not depend on anything having been inserted
add_play_next_always_emits(s, paths) ==
    LET a == AddPlayNextLoop([s |-> s, new |-> <<>>], paths) IN
    Emit([a.s EXCEPT !.manual_next = a.new \o @], UpcomingChanged)

add_play_next(s, paths) ==
    LET a == AddPlayNextLoop([s |-> s, new |-> <<>>], paths) IN
    IF a.new # <<>>
    THEN Emit([a.s EXCEPT !.manual_next = a.new \o @], UpcomingChanged)
    ELSE a.s

\* ----------------------------------------------- the window's end-of-track slot
\* MainWindow._play_random_track
_play_random_track(s) == next(s, FALSE, Identity, Identity)

\* MainWindow._on_playback_ended, connected to playbackEnded; repeat_enabled and
\* shuffle_enabled are the window's toggles.  No branch passes shuffle=True,
\* so no shuffle order is drawn.
_on_playback_ended(s, repeat_enabled, shuffle_enabled) ==
    LET s1 == stop(s) IN
    IF repeat_enabled THEN play(next(s1, FALSE, Identity, Identity))
    ELSE IF shuffle_enabled THEN _play_random_track(s1)
    ELSE play(next(s1, FALSE, Identity, Identity))

\* --------------------------------------------------------------- actions
NoBefore == [op |-> "-", shuffle |-> FALSE, result |-> NoTrack]

NoPre == [index |-> -1, history |-> <<>>, upcoming |-> <<>>, manual_next |-> <<>>,
          last_shuffle |-> FALSE]

Call(op, shuffle, paths, pos, result) ==
    [op |-> op, shuffle |-> shuffle, paths |-> paths, pos |-> pos, result |-> result,
     before |-> NoBefore, pre |-> NoPre]

\* the record of a next or previous call
Nav(op, shuffle) ==
    [Call(op, shuffle, <<>>, -1, NoTrack) EXCEPT
        !.before = [op |-> last.op, shuffle |-> last.shuffle, result |-> last.result],
        !.pre = [index |-> index, history |-> history, upcoming |-> upcoming,
                 manual_next |-> manual_next, last_shuffle |-> last_shuffle]]

\* the object after a call becomes the new state
Commit(s) ==
    /\ calls' = calls + 1
    /\ playlist' = s.playlist
    /\ index' = s.index
    /\ history' = s.history
    /\ upcoming' = s.upcoming
    /\ last_shuffle' = s.last_shuffle
    /\ manual_next' = s.manual_next
    /\ player' = s.player
    /\ pstate' = s.pstate
    /\ poll_timer' = s.poll_timer
    /\ timers' = s.timers
    /\ at_end' = s.at_end
    /\ fault' = fault
    /\ events' = s.events

\* the object as __init__ leaves it
Fresh ==
    /\ playlist = <<>>
    /\ index = -1
    /\ history = <<>>
    /\ upcoming = <<>>
    /\ last_shuffle = FALSE
    /\ manual_next = <<>>
    /\ player = NoTrack
    /\ pstate = "Stopped"
    /\ poll_timer = FALSE
    /\ timers = 0
    /\ at_end = FALSE
    /\ events = <<>>
    /\ last = Call("init", FALSE, <<>>, -1, NoTrack)
    /\ expect = <<>>
    /\ calls = 0

Init == Fresh /\ fault = "none"

\* BadTrack is a file the backend cannot load
InitFault == Fresh /\ fault \in {"silent", "raise"}

RebuildUpcoming ==
    /\ calls < MaxCalls
    /\ \E shuffle \in BOOLEAN : \E r \in Draws(shuffle, Len(playlist), index) :
           /\ \E s \in {rebuild_upcoming(Cur, shuffle, r)} : Commit(s)
           /\ last' = Call("rebuild_upcoming", shuffle, <<>>, -1, NoTrack)
           /\ expect' = <<>>

RemoveUpcoming ==
    /\ calls < MaxCalls
    /\ \E position \in -1..MaxLen :
           /\ \E s \in {remove_upcoming(Cur, position)} : Commit(s)
           /\ last' = [Call("remove_upcoming", FALSE, <<>>, position, NoTrack) EXCEPT
                         !.pre = [NoPre EXCEPT !.upcoming = upcoming]]
           /\ expect' = <<>>

ClearUpcoming ==
    /\ calls < MaxCalls
    /\ \E s \in {clear_upcoming(Cur)} : Commit(s)
    /\ last' = Call("clear_upcoming", FALSE, <<>>, -1, NoTrack)
    /\ expect' = <<>>

AddToUpcoming ==
    /\ calls < MaxCalls
    /\ \E paths \in PathLists(MaxBatch) :
           \E s \in {add_to_upcoming(Cur, paths)} :
           /\ Len(s.playlist) <= MaxLen
           /\ Canonical(s.playlist)
           /\ Commit(s)
           /\ last' = Call("add_to_upcoming", FALSE, paths, -1, NoTrack)
           /\ expect' = <<>>

PeekNext ==
    /\ calls < MaxCalls
    /\ \E shuffle \in BOOLEAN : \E r \in Draws(shuffle /\ upcoming = <<>>, Len(playlist), index) :
           \E s \in {peek_next(Cur, shuffle, r)} :
           /\ Commit(s)
           /\ last' = Call("peek_next", shuffle, <<>>, -1, PeekResult(s, shuffle))
           /\ expect' = <<>>

Play ==
    /\ calls < MaxCalls
    /\ \E s \in {play(Cur)} : Commit(s)
    /\ last' = Call("play", FALSE, <<>>, -1, NoTrack)
    /\ expect' = <<>>

Pause ==
    /\ calls < MaxCalls
    /\ \E s \in {pause(Cur)} : Commit(s)
    /\ last' = Call("pause", FALSE, <<>>, -1, NoTrack)
    /\ expect' = <<>>

TogglePlay ==
    /\ calls < MaxCalls
    /\ \E s \in {toggle_play(Cur)} : Commit(s)
    /\ last' = Call("toggle_play", FALSE, <<>>, -1, NoTrack)
    /\ expect' = <<>>

Stop ==
    /\ calls < MaxCalls
    /\ \E s \in {stop(Cur)} : Commit(s)
    /\ last' = Call("stop", FALSE, <<>>, -1, NoTrack)
    /\ expect' = <<>>

Next ==
    /\ calls < MaxCalls
    /\ \E shuffle \in BOOLEAN : \E r1 \in Draws(shuffle /\ upcoming = <<>>, Len(playlist), index) :
       \E r2 \in Draws(shuffle, Len(playlist), next(Cur, shuffle, r1, Identity).index) :
           /\ \E s \in {next(Cur, shuffle, r1, r2)} : Commit(s)
           /\ last' = Nav("next", shuffle)
           /\ expect' = IF expect # <<>> /\ Head(expect) # NoTrack THEN Tail(expect) ELSE <<>>

Previous ==
    /\ calls < MaxCalls
    /\ \E shuffle \in BOOLEAN :
       \E r \in Draws(shuffle, Len(playlist), previous(Cur, shuffle, Identity).index) :
           /\ \E s \in {previous(Cur, shuffle, r)} : Commit(s)
           /\ last' = Nav("previous", shuffle)
           /\ expect' = <<>>

Clear ==
    /\ calls < MaxCalls
    /\ \E s \in {clear(Cur)} : Commit(s)
    /\ last' = Call("clear", FALSE, <<>>, -1, NoTrack)
    /\ expect' = <<>>

AddFiles ==
    /\ calls < MaxCalls
    /\ \E paths \in PathLists(MaxBatch) :
           /\ Len(playlist) + Len(paths) <= MaxLen
           /\ Canonical(playlist \o paths)
           /\ \E s \in {add_files(Cur, paths)} : Commit(s)
           /\ last' = Call("add_files", FALSE, paths, -1, NoTrack)
           /\ expect' = <<>>

SetPlaylist ==
    /\ calls < MaxCalls
    /\ \E paths \in NewLists : \E start_index \in -1..Len(paths) :
       \E r \in Draws(last_shuffle, Len(paths), Max(0, Min(start_index, Len(paths) - 1))) :
           /\ \E s \in {set_playlist(Cur, paths, start_index, r)} : Commit(s)
           /\ last' = Call("set_playlist", FALSE, paths, start_index, NoTrack)
           /\ expect' = <<>>

\* a batch [X, Y] of two distinct tracks, neither current nor already queued
FreshPair(s, paths) ==
    /\ Len(paths) = 2
    /\ paths[1] # paths[2]
    /\ \A k \in 1..2 :
          /\ paths[k] # current_track(s)
          /\ Contains(s.playlist, paths[k]) =>
                ~Contains(s.manual_next, IndexOf(s.playlist, paths[k]))

\* after a fresh pair: X, Y, and NoTrack when nothing else is queued behind them
Promise(s, paths) ==
    IF FreshPair(s, paths)
    THEN paths \o (IF s.manual_next = <<>> THEN <<NoTrack>> ELSE <<>>)
    ELSE <<>>

AddPlayNext ==
    /\ calls < MaxCalls
    /\ \E paths \in PathLists(MaxBatch) :
           \E s \in {add_play_next(Cur, paths)} :
           /\ Len(s.playlist) <= MaxLen
           /\ Canonical(s.playlist)
           /\ Commit(s)
           /\ last' = Call("add_play_next", FALSE, paths, -1, NoTrack)
           /\ expect' = Promise(Cur, paths)

\* a tick of the progress timer
PollTick ==
    /\ calls < MaxCalls
    /\ poll_timer
    /\ \E s \in {_poll_vlc(Cur)} : Commit(s)
    /\ last' = Call("poll", FALSE, <<>>, -1, NoTrack)
    /\ expect' = <<>>

\* the backend plays the track to its end; no call is made
ReachEnd ==
    /\ calls < MaxCalls
    /\ player # NoTrack
    /\ pstate = "Playing"
    /\ ~at_end
    /\ at_end' = TRUE
    /\ UNCHANGED <<playlist, index, history, upcoming, last_shuffle, manual_next,
                   player, pstate, poll_timer, timers, fault, events, last, expect, calls>>

\* the window's slot runs for a playbackEnded that a tick has raised; last.pos
\* records repeat_enabled (1 or 0) and last.shuffle records shuffle_enabled
OnPlaybackEnded ==
    /\ calls < MaxCalls
    /\ last.op = "poll"
    /\ Contains(events, PlaybackEnded)
    /\ \E repeat_enabled, shuffle_enabled \in BOOLEAN :
           /\ \E s \in {_on_playback_ended(Cur, repeat_enabled, shuffle_enabled)} : Commit(s)
           /\ last' = [Nav("playback_ended", shuffle_enabled) EXCEPT
                         !.pos = IF repeat_enabled THEN 1 ELSE 0]
           /\ expect' = <<>>

Next_ ==
    \/ RebuildUpcoming
    \/ RemoveUpcoming
    \/ ClearUpcoming
    \/ AddToUpcoming
    \/ PeekNext
    \/ Play
    \/ Pause
    \/ TogglePlay
    \/ Stop
    \/ Next
    \/ Previous
    \/ Clear
    \/ AddFiles
    \/ SetPlaylist
    \/ AddPlayNext
    \/ PollTick
    \/ ReachEnd
    \/ OnPlaybackEnded

Spec == Init /\ [][Next_]_vars

SpecFault == InitFault /\ [][Next_]_vars

\* ------------------------------------------------------------ properties
CurTrack == current_track(Cur)

Emitted(e) == Contains(events, e)

Top(seq) == seq[Len(seq)]

\* a step that is the call op
Calls(op) == calls' = calls + 1 /\ last'.op = op

\* C1: current_index is -1 exactly when the playlist is empty, and is otherwise
\* a valid index of the playlist.
C1_IndexInRange ==
    IF playlist = <<>> THEN index = -1 ELSE Valid(playlist, index)

\* C2: the upcoming list never contains current_index and never holds an index twice.
C2_UpcomingExcludesCurrent ==
    ~Contains(upcoming, index) /\ NoDup(upcoming)

\* C3: the manual-next queue never contains current_index.
C3_ManualExcludesCurrent ==
    ~Contains(manual_next, index)

\* C4: after add_play_next([X, Y]) with X, Y distinct, not current and not queued,
\* the next two next() calls take the manual path and make X and then Y current,
\* in either mode; when nothing else was queued the queue is then empty, so the
\* third call is the first to use the linear or shuffle order.  (expect holds
\* the tracks still promised; NoTrack stands for the fall-back call.)
C4_PlayNextOrder ==
    [][(Calls("next") /\ expect # <<>>) =>
          IF Head(expect) # NoTrack
          THEN /\ CurTrack' = Head(expect)
               /\ manual_next' = Tail(manual_next)
               /\ index' = Head(manual_next)
               /\ history' = history
          ELSE manual_next = <<>>]_vars

\* C5: in linear mode with an empty manual queue, next(False) moves current_index
\* from i to (i + 1) mod n on a playlist of n >= 1 tracks, i being -1 or an index
\* of the playlist: it steps through 1..n-1 and wraps from n-1 to 0.
C5_LinearNextWraps ==
    (/\ last.op = "next"
     /\ ~last.shuffle
     /\ last.pre.manual_next = <<>>
     /\ playlist # <<>>
     /\ last.pre.index \in -1..(Len(playlist) - 1))
    => index = (last.pre.index + 1) % Len(playlist)

C5_Witness ==
    /\ last.op = "next" /\ ~last.shuffle /\ last.pre.manual_next = <<>>
    /\ last.before.op = "next" /\ ~last.before.shuffle
    /\ Len(playlist) = MaxLen
    /\ last.pre.index = Len(playlist) - 1
    /\ index = 0

\* the state right after a next(True) that started with at least two tracks, a
\* valid current index and an empty manual queue
AfterShuffleNext ==
    /\ last.op = "next" /\ last.shuffle
    /\ last.pre.manual_next = <<>>
    /\ Len(playlist) >= 2
    /\ Valid(playlist, last.pre.index)

\* C6: after such a next(True) the top of history is the index c it left, and a
\* previous(True) called right after it makes c current again and leaves history
\* as it was before the next.
C6_ShuffleRoundTrip ==
    [][(AfterShuffleNext /\ Calls("previous") /\ last'.shuffle) =>
          /\ history = Append(last.pre.history, last.pre.index)
          /\ index' = last.pre.index
          /\ history' = last.pre.history]_vars

C6_Witness ==
    /\ last.op = "previous" /\ last.shuffle
    /\ last.before.op = "next" /\ last.before.shuffle
    /\ Len(playlist) = MaxLen
    /\ last.pre.history # <<>>
    /\ index = Top(last.pre.history)
    /\ index # last.pre.index
    /\ history = <<>>

\* C7: add_play_next([X]) with X the current track changes nothing and raises no
\* notification.
C7_PlayNextCurrentIsNoOp ==
    [][(/\ Calls("add_play_next")
        /\ Len(last'.paths) = 1
        /\ last'.paths[1] = CurTrack) =>
          /\ UNCHANGED <<playlist, index, history, upcoming, last_shuffle, manual_next,
                         player, pstate, poll_timer>>
          /\ events' = <<>>]_vars

C7_Witness ==
    /\ last.op = "add_play_next"
    /\ last.paths = <<CurTrack>>
    /\ manual_next # <<>>
    /\ events = <<>>

\* C8: when peek_next(s) returns a track T, a next(s) called right after it with
\* the same flag makes T the current track.
C8_PeekIsNext ==
    (/\ last.op = "next"
     /\ last.before.op = "peek_next"
     /\ last.before.shuffle = last.shuffle
     /\ last.before.result \in Tracks)
    => CurTrack = last.before.result

C8_Witness ==
    /\ last.op = "next" /\ last.shuffle
    /\ last.before.op = "peek_next" /\ last.before.shuffle
    /\ last.pre.manual_next = <<>>
    /\ Len(playlist) = MaxLen
    /\ last.before.result \in Tracks
    /\ CurTrack = last.before.result

\* C9: peek_next changes neither current_index, the playlist, history, the manual
\* queue nor the playback state, and removes nothing from upcoming; it changes
\* upcoming (and the remembered mode) only by a rebuild, when shuffle is on and
\* upcoming is empty.
C9_PeekIsPure ==
    [][Calls("peek_next") =>
          /\ UNCHANGED <<playlist, index, history, manual_next, player, pstate, poll_timer>>
          /\ \A k \in 1..Len(upcoming) : Contains(upcoming', upcoming[k])
          /\ (upcoming' # upcoming \/ last_shuffle' # last_shuffle) =>
                /\ last'.shuffle
                /\ upcoming = <<>>
                /\ NoDup(upcoming')
                /\ \A i \in 0..(MaxLen - 1) :
                      Contains(upcoming', i) <=> (i \in Shuffles(Len(playlist), index)
                                                   /\ Valid(playlist, index))]_vars

C9_Witness ==
    /\ last.op = "peek_next" /\ last.shuffle
    /\ Len(upcoming) = MaxLen - 1
    /\ events = <<UpcomingChanged>>
    /\ last.result = At(playlist, Head(upcoming))

\* C10: on a single-track playlist next(False) and previous(False) leave index 0
\* current, raise track-changed for that track and leave playback playing.
C10_SingleTrackReload ==
    (/\ last.op \in {"next", "previous"}
     /\ ~last.shuffle
     /\ Len(playlist) = 1)
    => /\ index = 0
       /\ Emitted(TrackChanged(At(playlist, 0)))
       /\ player = At(playlist, 0)
       /\ pstate = "Playing"
       /\ poll_timer

C10_Witness ==
    /\ last.op = "previous" /\ ~last.shuffle
    /\ Len(playlist) = 1
    /\ last.pre.index = 0
    /\ index = 0
    /\ last.before.op = "pause"
    /\ pstate = "Playing"

C12_EmptyPlaylistNoOp ==
    [][(playlist = <<>> /\ (Calls("next") \/ Calls("previous") \/ Calls("peek_next"))) =>
          /\ index = -1
          /\ index' = -1
          /\ UNCHANGED <<playlist, history, upcoming, manual_next, player, pstate,
                         poll_timer, timers, at_end>>
          /\ events' = <<>>
          /\ last'.result = NoTrack]_vars

C12_Witness ==
    /\ last.op = "next" /\ last.shuffle
    /\ playlist = <<>>
    /\ upcoming # <<>>
    /\ pstate = "Playing"
    /\ events = <<>>

C14_SetPlaylist ==
    last.op = "set_playlist" =>
       /\ playlist = last.paths
       /\ index = IF last.paths = <<>> THEN -1
                  ELSE Max(0, Min(last.pos, Len(last.paths) - 1))
       /\ last.paths # <<>> =>
             /\ Emitted(TrackChanged(At(playlist, index)))
             /\ player = At(playlist, index)
       /\ pstate = "Stopped"
       /\ ~poll_timer
       /\ timers = 0

C14_Witness ==
    /\ last.op = "set_playlist"
    /\ Len(playlist) = MaxLen
    /\ last.pos = MaxLen
    /\ index = MaxLen - 1
    /\ history # <<>>
    /\ Head(events) = TrackChanged(At(playlist, index))

\* C15: add_files(tracks) appends tracks to the playlist; when current_index was
\* -1 and the playlist is now non-empty it makes index 0 current and loads that
\* track without starting it; when a track was selected already, current_index,
\* the current track and the playback state are unchanged.
C15_AddFiles ==
    [][Calls("add_files") =>
          /\ playlist' = playlist \o last'.paths
          /\ (index = -1 /\ playlist' # <<>>) =>
                /\ index' = 0
                /\ player' = At(playlist', 0)
                /\ pstate' = "Stopped"
                /\ events' = <<TrackChanged(At(playlist', 0))>>
          /\ Valid(playlist, index) =>
                /\ UNCHANGED <<index, player, pstate, poll_timer>>
                /\ CurTrack' = CurTrack
                /\ events' = <<>>]_vars

C15_Witness ==
    /\ last.op = "add_files"
    /\ Len(last.paths) = MaxBatch
    /\ Len(playlist) = MaxLen
    /\ index = 0
    /\ events = <<TrackChanged(At(playlist, 0))>>
    /\ pstate = "Stopped"

\* C16: after clear() the playlist, history, upcoming and the manual queue are
\* empty, current_index is -1 and the playback is stopped with the poll timer off.
C16_Clear ==
    last.op = "clear" =>
       /\ playlist = <<>>
       /\ history = <<>>
       /\ upcoming = <<>>
       /\ manual_next = <<>>
       /\ index = -1
       /\ pstate = "Stopped"
       /\ ~poll_timer
       /\ timers = 0

C16_Witness ==
    /\ last.op = "clear"
    /\ calls = MaxCalls
    /\ player # NoTrack
    /\ playlist = <<>> /\ manual_next = <<>> /\ history = <<>>
    /\ events = <<UpcomingChanged>>

\* C17: a tick that observes position >= duration > 0 raises playback-finished
\* and stops the polling, so that no later tick raises it again before the next
\* play(): the tick leaves the timer off, and it is not the second tick in a row
\* to raise the notification.
C17_FinishedOnce ==
    [][(Calls("poll") /\ Contains(events', PlaybackEnded)) =>
          /\ ~poll_timer'
          /\ ~(last.op = "poll" /\ Contains(events, PlaybackEnded))]_vars

\* C18: the poll timer runs only while the playback is playing; it is off after
\* pause(), stop(), clear() and set_playlist(), on after a play() that has a
\* handle to start, and there is never more than one timer.
C18_TimerOnlyWhilePlaying ==
    /\ poll_timer => (player # NoTrack /\ pstate = "Playing")
    /\ last.op \in {"pause", "stop", "clear", "set_playlist"} => ~poll_timer
    /\ (last.op = "play" /\ player # NoTrack) => poll_timer
    /\ timers = (IF poll_timer THEN 1 ELSE 0)

\* the calls that ask the backend for a track: next and previous on a playlist
\* with tracks, set_playlist with tracks, play() without a handle
LoadAttempt ==
    \/ (Calls("next") \/ Calls("previous")) /\ playlist # <<>>
    \/ Calls("set_playlist") /\ last'.paths # <<>>
    \/ Calls("play") /\ player = NoTrack /\ Valid(playlist, index)

Healthy == [Cur EXCEPT !.fault = "none"]

Bookkeeping(s) == <<s.index, s.history, s.upcoming, s.manual_next>>

ErrorOccurred == <<"errorOccurred", NoTrack>>

\* C19: when the backend fails to load the track that next, previous,
\* set_playlist or play selects, the call raises an error notification, lets no
\* exception escape, leaves the playback stopped and current_index on the
\* attempted track, with history, upcoming and the manual queue as a successful
\* load leaves them (compared for the calls whose outcome is not drawn at random).
C19_LoadFailureReported ==
    [][(LoadAttempt /\ Valid(playlist', index') /\ Unreadable(Cur, CurTrack')) =>
          /\ Contains(events', ErrorOccurred)
          /\ ~Contains(events', Escaped)
          /\ pstate' = "Stopped"
          /\ (Calls("next") /\ ~last'.shuffle) =>
                Bookkeeping(Cur') = Bookkeeping(next(Healthy, FALSE, Identity, Identity))
          /\ (Calls("previous") /\ ~last'.shuffle) =>
                Bookkeeping(Cur') = Bookkeeping(previous(Healthy, FALSE, Identity))
          /\ (Calls("set_playlist") /\ ~last_shuffle) =>
                Bookkeeping(Cur') = Bookkeeping(set_playlist(Healthy, last'.paths,
                                                             last'.pos, Identity))]_vars

\* the track-changed notifications among the signals of the last call
TrackChanges == SelectSeq(events, LAMBDA e : e[1] = "trackChanged")

\* C20: a call that gives current_index a valid value (set_playlist with tracks,
\* the auto-select of add_files, next and previous on a playlist with tracks)
\* raises, within the call, track-changed once, carrying playlist[current_index]
\* for the new value of current_index.
C20_TrackChangedOnSelect ==
    [][((\/ (Calls("next") \/ Calls("previous")) /\ playlist # <<>>
         \/ Calls("set_playlist") /\ playlist' # <<>>
         \/ Calls("add_files") /\ index' # index)
        /\ Valid(playlist', index')) =>
          TrackChanges' = <<TrackChanged(CurTrack')>>]_vars

C20_Witness ==
    /\ last.op = "next" /\ last.shuffle
    /\ last.pre.manual_next # <<>>
    /\ index = Head(last.pre.manual_next)
    /\ index # last.pre.index
    /\ Valid(playlist, index)
    /\ TrackChanges = <<TrackChanged(CurTrack)>>

\* the first position of x in seq
FirstOf(seq, x) == CHOOSE k \in 1..Len(seq) : seq[k] = x /\ \A j \in 1..(k - 1) : seq[j] # x

Elems(seq) == {seq[k] : k \in 1..Len(seq)}

\* new lists the members of acc once each, in the order of their first occurrence in ref
InOrderOf(new, ref, acc) ==
    /\ NoDup(new)
    /\ Elems(new) = acc
    /\ \A a, b \in 1..Len(new) : a < b => FirstOf(ref, new[a]) < FirstOf(ref, new[b])

\* the playlist indices that the paths of a batch denote
Resolved(pl, paths) == [k \in 1..Len(paths) |-> IndexOf(pl, paths[k])]

\* the indices of a batch that are not the current track and not in queue already
Accepted(pl, paths, cur, idx, queue) ==
    {Resolved(pl, paths)[k] : k \in {k \in 1..Len(paths) :
        /\ paths[k] # cur
        /\ Resolved(pl, paths)[k] # idx
        /\ ~Contains(queue, Resolved(pl, paths)[k])}}

\* C21: add_play_next(paths) puts the accepted indices of the batch (not the
\* current track, not queued already, each once), in first-occurrence order, in
\* front of the entries queued before, which keep their order; the manual queue
\* never holds an index twice; upcoming-changed is raised iff an index was inserted.
C21_PlayNextPrepends ==
    [][Calls("add_play_next") =>
          LET n == Len(manual_next') - Len(manual_next) IN
          /\ n >= 0
          /\ SubSeq(manual_next', n + 1, Len(manual_next')) = manual_next
          /\ InOrderOf(SubSeq(manual_next', 1, n), Resolved(playlist', last'.paths),
                       Accepted(playlist', last'.paths, CurTrack, index, manual_next))
          /\ NoDup(manual_next')
          /\ events' = IF n > 0 THEN <<UpcomingChanged>> ELSE <<>>]_vars

C21_Witness ==
    /\ last.op = "add_play_next"
    /\ Len(last.paths) = 2 /\ last.paths[1] = last.paths[2]
    /\ Valid(playlist, index)
    /\ Len(manual_next) = 2
    /\ manual_next[1] = IndexOf(playlist, last.paths[1])
    /\ events = <<UpcomingChanged>>

\* C22: add_to_upcoming(paths) skips the current track, appends each unknown
\* path to the playlist, and appends the index of each path at the end of
\* upcoming unless upcoming holds it already; the entries upcoming held keep their
\* positions; upcoming-changed is raised iff the playlist or upcoming was
\* modified; current_index, history and the manual queue are unchanged.
C22_AddToUpcomingAppends ==
    [][Calls("add_to_upcoming") =>
          /\ UNCHANGED <<index, history, manual_next>>
          /\ Len(playlist') >= Len(playlist)
          /\ SubSeq(playlist', 1, Len(playlist)) = playlist
          /\ InOrderOf(SubSeq(playlist', Len(playlist) + 1, Len(playlist')), last'.paths,
                       {p \in Elems(last'.paths) : ~Contains(playlist, p)})
          /\ Len(upcoming') >= Len(upcoming)
          /\ SubSeq(upcoming', 1, Len(upcoming)) = upcoming
          /\ InOrderOf(SubSeq(upcoming', Len(upcoming) + 1, Len(upcoming')),
                       Resolved(playlist', last'.paths),
                       Accepted(playlist', last'.paths, CurTrack, index, upcoming))
          /\ events' = IF playlist' # playlist \/ upcoming' # upcoming
                       THEN <<UpcomingChanged>> ELSE <<>>]_vars

C22_Witness ==
    /\ last.op = "add_to_upcoming"
    /\ Len(last.paths) = 2
    /\ index = 0
    /\ Len(playlist) = MaxLen
    /\ Len(upcoming) = 2
    /\ upcoming[1] = IndexOf(playlist, last.paths[1])
    /\ upcoming[2] = IndexOf(playlist, last.paths[2])
    /\ upcoming[2] = MaxLen - 1
    /\ events = <<UpcomingChanged>>

\* C23: remove_upcoming(position) with 0 <= position < len(upcoming) removes the
\* entry at that position, keeps the others in order and raises upcoming-changed;
\* with any other position it changes nothing and raises nothing; current_index,
\* the playlist, history and the manual queue are unchanged either way.
C23_RemoveUpcoming ==
    [][Calls("remove_upcoming") =>
          /\ UNCHANGED <<index, playlist, history, manual_next>>
          /\ IF 0 <= last'.pos /\ last'.pos < Len(upcoming)
             THEN /\ Len(upcoming') = Len(upcoming) - 1
                  /\ \A k \in 1..Len(upcoming') :
                        upcoming'[k] = upcoming[IF k <= last'.pos THEN k ELSE k + 1]
                  /\ events' = <<UpcomingChanged>>
             ELSE /\ upcoming' = upcoming
                  /\ events' = <<>>]_vars

C23_Witness ==
    /\ last.op = "remove_upcoming"
    /\ last.pos = 0
    /\ index = 0
    /\ Len(playlist) = MaxLen
    /\ upcoming = <<MaxLen - 1>>
    /\ events = <<UpcomingChanged>>

\* the playlist indices other than i
Others(pl, i) == {j \in 0..(Len(pl) - 1) : j # i}

\* C24: whenever the manual queue is non-empty, next in either mode (on a
\* playlist with tracks) pops its front entry and makes it current, raises upcoming-changed, leaves history alone, and
\* leaves upcoming alone unless shuffle is on and the queue (after the pop) and
\* upcoming are both empty, in which case upcoming is rebuilt.
C24_ManualOverride ==
    [][(Calls("next") /\ manual_next # <<>> /\ playlist # <<>>) =>
          /\ manual_next' = Tail(manual_next)
          /\ index' = Head(manual_next)
          /\ Contains(events', UpcomingChanged)
          /\ history' = history
          /\ IF last'.shuffle /\ Tail(manual_next) = <<>> /\ upcoming = <<>>
             THEN NoDup(upcoming') /\ Elems(upcoming') = Others(playlist, index')
             ELSE upcoming' = upcoming]_vars

\* C25: next(True) with an empty manual queue on a playlist with tracks: an
\* empty upcoming list is rebuilt first; if it is still empty current_index and
\* history are unchanged; otherwise the index being left is pushed on history
\* exactly when it is valid and the front entry of upcoming becomes current.
C25_ShuffleNext ==
    [][(Calls("next") /\ last'.shuffle /\ manual_next = <<>> /\ playlist # <<>>) =>
          IF upcoming # <<>>
          THEN /\ index' = Head(upcoming)
               /\ history' = IF Valid(playlist, index) THEN Append(history, index) ELSE history
          ELSE IF Valid(playlist, index) /\ Len(playlist) >= 2
          THEN /\ index' \in Others(playlist, index)
               /\ history' = Append(history, index)
          ELSE /\ index' = index
               /\ history' = history]_vars

C25_Witness ==
    /\ last.op = "next" /\ last.shuffle
    /\ last.pre.manual_next = <<>>
    /\ last.pre.upcoming = <<>>
    /\ Len(playlist) = MaxLen
    /\ Valid(playlist, last.pre.index)
    /\ index # last.pre.index
    /\ history = Append(last.pre.history, last.pre.index)

\* C26: previous on a playlist with tracks: with shuffle on and a non-empty
\* history the most recent entry is popped and becomes current, and the index
\* being left is not pushed; otherwise current_index becomes
\* (current_index - 1) mod len and history is unchanged; the manual queue is
\* unchanged in every case.
C26_Previous ==
    [][(Calls("previous") /\ playlist # <<>>) =>
          /\ manual_next' = manual_next
          /\ IF last'.shuffle /\ history # <<>>
             THEN /\ index' = Top(history)
                  /\ history' = SubSeq(history, 1, Len(history) - 1)
             ELSE /\ index' = (index - 1) % Len(playlist)
                  /\ history' = history]_vars

C26_Witness ==
    /\ last.op = "previous" /\ ~last.shuffle
    /\ Len(playlist) = MaxLen
    /\ last.pre.index = 0
    /\ index = MaxLen - 1
    /\ history # <<>>
    /\ history = last.pre.history

\* C27: in linear mode upcoming is [current_index + 1 .. len - 1], ascending,
\* after next, previous, set_playlist and add_files, and after rebuild_upcoming(False).
C27_LinearUpcoming ==
    (\/ last.op \in {"next", "previous", "rebuild_upcoming"} /\ ~last.shuffle
     \/ last.op \in {"set_playlist", "add_files"} /\ ~last_shuffle)
    => upcoming = Range(index + 1, Len(playlist))

\* C28: rebuild_upcoming(True) with a valid current_index leaves in upcoming
\* every other playlist index exactly once; with an empty playlist or an invalid
\* current_index it leaves upcoming empty; rebuild_upcoming never changes
\* current_index, the playlist, history or the manual queue.
C28_ShuffleRebuild ==
    [][Calls("rebuild_upcoming") =>
          /\ UNCHANGED <<index, playlist, history, manual_next>>
          /\ last'.shuffle =>
                IF Valid(playlist, index)
                THEN NoDup(upcoming') /\ Elems(upcoming') = Others(playlist, index)
                ELSE upcoming' = <<>>]_vars

C28_Witness ==
    /\ last.op = "rebuild_upcoming" /\ last.shuffle
    /\ Len(playlist) = MaxLen
    /\ index = 0
    /\ upcoming = <<MaxLen - 1, 1>>

\* C29: upcoming is the play order: with a valid current_index and an empty
\* manual queue, the next() that follows a rebuild_upcoming in the same mode
\* makes the first entry of upcoming current, and a second next() in that mode
\* makes current the second entry the list held before the first (the cases
\* k = 1 and k = 2 of the claim, from a list just built for the mode).
C29_UpcomingIsPlayOrder ==
    [][(/\ Calls("next")
        /\ last'.shuffle = last_shuffle
        /\ manual_next = <<>>
        /\ Valid(playlist, index)) =>
          /\ (/\ last.op = "rebuild_upcoming"
              /\ last.shuffle = last'.shuffle
              /\ upcoming # <<>>) => index' = Head(upcoming)
          /\ (/\ last.op = "next"
              /\ last.shuffle = last'.shuffle
              /\ last.before.op = "rebuild_upcoming"
              /\ last.before.shuffle = last.shuffle
              /\ last.pre.manual_next = <<>>
              /\ Valid(playlist, last.pre.index)
              /\ Len(last.pre.upcoming) >= 2) => index' = last.pre.upcoming[2]]_vars

\* C30: after next or previous on a playlist with tracks the playback is playing
\* and the poll timer is on.
C30_PlayingAfterNav ==
    (last.op \in {"next", "previous"} /\ playlist # <<>>)
    => (pstate = "Playing" /\ poll_timer)

\* the sequence old is the beginning of the sequence new
IsPrefix(old, new) ==
    Len(old) <= Len(new) /\ SubSeq(new, 1, Len(old)) = old

\* the sequence old is the end of the sequence new
IsSuffix(old, new) ==
    Len(old) <= Len(new) /\ SubSeq(new, Len(new) - Len(old) + 1, Len(new)) = old

\* every entry of seq is an index of the playlist pl
AllValid(pl, seq) == \A k \in 1..Len(seq) : Valid(pl, seq[k])

\* C31: when playback-finished arrives with shuffle enabled and repeat
\* disabled (empty manual queue, a valid current_index, a non-empty upcoming
\* list of valid indices), the window's handler makes the front of upcoming
\* current and pushes the index being left on history.
C31_EndedShuffleAdvance ==
    [][(/\ Calls("playback_ended")
        /\ last'.shuffle /\ last'.pos = 0
        /\ manual_next = <<>>
        /\ Valid(playlist, index)
        /\ upcoming # <<>> /\ AllValid(playlist, upcoming)) =>
          /\ index' = Head(upcoming)
          /\ history' = Append(history, index)]_vars

\* C32: every index in upcoming is a valid index of the current playlist, and
\* peek_next never ends in an IndexError.
C32_UpcomingInRange ==
    /\ AllValid(playlist, upcoming)
    /\ last.op = "peek_next" => last.result # Raised

\* C33: the playback is playing only while the playlist has tracks and
\* current_index is one of its indices.
C33_PlayingHasTrack ==
    pstate = "Playing" => (playlist # <<>> /\ Valid(playlist, index))

\* C34: at a next() on a playlist with tracks the front of a non-empty manual
\* queue is an index of the playlist, and a next() that takes the front entry
\* off the queue makes that entry current.
C34_ManualQueueDenotesQueued ==
    [][(Calls("next") /\ playlist # <<>> /\ manual_next # <<>>) =>
          /\ Valid(playlist, Head(manual_next))
          /\ manual_next' = Tail(manual_next) => index' = Head(manual_next)]_vars

\* C35: with at least two tracks, a valid current_index and an empty manual
\* queue, next(True) makes a different index current.
C35_ShuffleNextMoves ==
    [][(/\ Calls("next") /\ last'.shuffle
        /\ Len(playlist) >= 2
        /\ Valid(playlist, index)
        /\ manual_next = <<>>) => index' # index]_vars

\* C36: previous(True) directly after a next(True) that took its track from the
\* manual queue makes current the index that was current before that next.
C36_PreviousUndoesManualNext ==
    [][(/\ Calls("previous") /\ last'.shuffle
        /\ last.op = "next" /\ last.shuffle
        /\ last.pre.manual_next # <<>>
        /\ Valid(playlist, Head(last.pre.manual_next))
        /\ Valid(playlist, last.pre.index)) => index' = last.pre.index]_vars

\* C37: in linear mode with an empty manual queue and a valid current_index,
\* previous(False) directly after next(False), and next(False) directly after
\* previous(False), leave current_index, upcoming and history as they were
\* before the pair.
C37_LinearRoundTrip ==
    [][(/\ \/ Calls("previous") /\ last.op = "next"
           \/ Calls("next") /\ last.op = "previous"
        /\ ~last'.shuffle /\ ~last.shuffle
        /\ ~last.pre.last_shuffle
        /\ last.pre.manual_next = <<>>
        /\ Valid(playlist, last.pre.index)) =>
          /\ index' = last.pre.index
          /\ upcoming' = last.pre.upcoming
          /\ history' = last.pre.history]_vars

\* C38: the next() that directly follows a remove_upcoming that removed an
\* entry, in the mode the list was built for, with an empty manual queue and
\* upcoming still non-empty, does not make the removed index current.
C38_RemovedNotPlayedNext ==
    [][(/\ Calls("next")
        /\ last.op = "remove_upcoming"
        /\ last.pos >= 0 /\ last.pos < Len(last.pre.upcoming)
        /\ last'.shuffle = last_shuffle
        /\ manual_next = <<>>
        /\ upcoming # <<>>
        /\ Valid(playlist, index)) =>
          index' # last.pre.upcoming[last.pos + 1]]_vars

\* C39: a next() on a playlist with tracks and a non-empty manual queue takes
\* exactly the front entry off the queue; clear empties the queue;
\* add_play_next keeps the queued entries behind the new ones; every other call
\* leaves the queue as it is.
C39_QueueShrinksByOne ==
    [][calls' = calls + 1 =>
          IF last'.op \in {"next", "playback_ended"} /\ playlist # <<>> /\ manual_next # <<>>
          THEN manual_next' = Tail(manual_next)
          ELSE IF last'.op = "clear" THEN manual_next' = <<>>
          ELSE IF last'.op = "add_play_next" THEN IsSuffix(manual_next, manual_next')
          ELSE manual_next' = manual_next]_vars

C39_Witness ==
    /\ last.op = "next" /\ last.before.op = "next"
    /\ Len(last.pre.manual_next) = 1
    /\ index = Head(last.pre.manual_next)
    /\ last.pre.index # index
    /\ Valid(playlist, last.pre.index)
    /\ manual_next = <<>>

\* C40: add_files, add_to_upcoming and add_play_next only append to the
\* playlist: the old playlist is the beginning of the new one, history is
\* unchanged, the old upcoming list is the beginning of the new one and the old
\* manual queue the end of the new one, and with a valid current_index the
\* index and current_track() are unchanged.
C40_AddsOnlyAppend ==
    [][(\/ Calls("add_files") \/ Calls("add_to_upcoming") \/ Calls("add_play_next")) =>
          /\ IsPrefix(playlist, playlist')
          /\ history' = history
          /\ IsPrefix(upcoming, upcoming')
          /\ IsSuffix(manual_next, manual_next')
          /\ Valid(playlist, index) => (index' = index /\ CurTrack' = CurTrack)]_vars

C40_Witness ==
    /\ last.op = "add_play_next"
    /\ Len(playlist) = MaxLen
    /\ last.paths = <<playlist[MaxLen]>>
    /\ manual_next = <<MaxLen - 1>>
    /\ history # <<>>
    /\ upcoming # <<>>
    /\ Valid(playlist, index)

====
